---- MODULE Spec2Model ----
(***************************************************************************)
(* The followup lifecycle of the DocFollow backend: the WhatsApp webhook,  *)
(* the drafting step, the doctor's decision, the send_whatsapp_message     *)
(* tool, the appointment flow and the routes that write followup           *)
(* documents.  The document store is the only shared state; a handler that *)
(* awaits a worker thread (portia.run) is split at that await, because the *)
(* event loop runs other handlers in between.                              *)
(***************************************************************************)
EXTENDS Integers, Sequences, FiniteSets, TLC

VARIABLES
    followups,     \* db.followups: document id -> document
    drafts,        \* webhook handlers suspended in process_patient_response
    decisions,     \* doctor_decision calls suspended in portia.run
    bookings,      \* book_appointment background tasks
    gateway,       \* the call the messaging gateway received last: [to, body, ok]
    delivered,     \* the MessageSids the gateway has delivered to the webhook
    resp,          \* the response most recently returned to a caller
    initialized,   \* AgentRegistry._initialized
    now,           \* the wall clock
    ops,           \* requests, task steps and clock ticks taken so far
    issued,        \* how many followup document ids the store has generated
    remainders,    \* db.remainders: document id -> document
    sched_initialized,  \* SchedulerService._initialized
    jobs,          \* the scheduler's job store (collection scheduled_jobs)
    sched_ret,     \* what the scheduler method called last returned
    fired,         \* the ids of the jobs whose bound action has run
    cancelled,     \* the jobs a cancel call has removed, and when it did
    toolruns       \* send_whatsapp_message threads between their send and their update

\* The scheduler's state and the reminder records.
schedVars == <<remainders, sched_initialized, jobs, sched_ret, fired, cancelled>>

vars == <<followups, drafts, decisions, bookings, gateway, delivered, resp,
          initialized, now, ops, issued, schedVars, toolruns>>

----------------------------------------------------------------------------
(* Bounds                                                                  *)

MaxFollowups == 2
MaxHist == 2
MaxTime == 1
MaxInflight == 2
MaxOps == 6

FollowupIds == 1..MaxFollowups
Slots == 1..MaxInflight
Times == 0..MaxTime

----------------------------------------------------------------------------
(* Values                                                                  *)

None == "<None>"

Patients == {"p1", "p2"}

PatientPhone(p) == IF p = "p1" THEN "+1" ELSE "+2"

PatientDoctor(p) == "d1"

\* The inbound payloads Twilio delivers; a MessageSid names one payload.
MessageSids == {"SM1", "SM2", "SM3", "SM4"}

PayloadFrom(sid) ==
    CASE sid = "SM1" -> <<"whatsapp:", "+1">>
      [] sid = "SM2" -> <<"whatsapp:", "+1">>
      [] sid = "SM3" -> <<"whatsapp:", "+2">>
      [] sid = "SM4" -> <<"whatsapp:", "+9">>

PayloadBody(sid) ==
    CASE sid = "SM1" -> "b1"
      [] sid = "SM2" -> "b2"
      [] sid = "SM3" -> "b1"
      [] sid = "SM4" -> "b1"

\* The appointment_details of a followup that has none.
NoAppointment ==
    [event_title |-> None, start_time |-> None, end_time |-> None, gcal_event_id |-> None]

\* What the drafting agent composes from a patient message.
DraftFor(content) == IF content = "b1" THEN "draft_b1" ELSE "draft_b2"

AwaitingStatuses_WithClosed ==
    {"waiting_for_patient", "waiting_for_doctor", "appointment_scheduling", "closed"}

AwaitingStatuses == {"waiting_for_patient", "waiting_for_doctor", "appointment_scheduling"}

PutStatuses == {"waiting_for_patient", "appointment_scheduling", "closed"}

Decisions == {"approve", "edit", "custom", "reject"}

CustomMessages == {None, "", "custom1"}

ToolMessages == {"agent_msg"}

AppointmentRequestMessage == "appointment_request"

ReminderDraft == "reminder_sent"

NoteProcessed == "processed"

NoteFailed == "processing_failed"

----------------------------------------------------------------------------
(* Helpers over the document store                                         *)

\* The run is cut after MaxOps steps.
Spend == ops < MaxOps /\ ops' = ops + 1

Exists(f) == f \in DOMAIN followups

\* update_one({"_id": id}, {"$set": fields}): no document, no effect.
SetFields(docs, f, fields) ==
    IF f \in DOMAIN docs
    THEN [docs EXCEPT ![f] = fields @@ docs[f]]
    ELSE docs

Message(sender, content, t) ==
    [sender |-> sender, content |-> content, timestamp |-> t]

\* update_one with $push history and $set status, updated_at.
PushAndSetStatus(docs, f, msg, status) ==
    IF f \in DOMAIN docs
    THEN [docs EXCEPT ![f] = [status |-> status,
                              history |-> Append(docs[f].history, msg)] @@ docs[f]]
    ELSE docs

HistoryRoom(f) == Exists(f) => Len(followups[f].history) < MaxHist

\* A suspended call or queued task: where it is, its arguments, and whether
\* its caller has its response already.
IdleFrame == [pc |-> "idle", sid |-> None, followup_id |-> 0, patient_id |-> None,
              message_content |-> None, decision |-> None, responded |-> FALSE]

FreeSlot(frames) ==
    IF \E s \in Slots : frames[s].pc = "idle"
    THEN CHOOSE s \in Slots : frames[s].pc = "idle"
                              /\ \A r \in Slots : frames[r].pc = "idle" => s <= r
    ELSE 0

\* whatsapp_service.send_message(to_number, message) and its result.
GatewayCall(to, body, ok) == [to |-> to, body |-> body, ok |-> ok]

ReminderMessage == "reminder"

ConfirmationMessage == "appointment_confirmed"

Response(op, status, message) == [op |-> op, status |-> status, message |-> message]

----------------------------------------------------------------------------
(* POST /webhooks/whatsapp                                                 *)

StripWhatsappPrefix(From) == From[2]

FindPatientByPhone(phone) ==
    IF \E p \in Patients : PatientPhone(p) = phone
    THEN CHOOSE p \in Patients : PatientPhone(p) = phone
    ELSE None

get_latest_followup_for_patient_Oldest(patient_id) ==
    LET match == {f \in DOMAIN followups :
                     /\ followups[f].patient_id = patient_id
                     /\ followups[f].status \in AwaitingStatuses}
    IN {f \in match : \A g \in match : followups[f].created_at <= followups[g].created_at}

\* find_one(patient_id, status $in awaiting, sort created_at descending):
\* the documents the query can return (one of the newest; empty when none).
get_latest_followup_for_patient(patient_id) ==
    LET match == {f \in DOMAIN followups :
                     /\ followups[f].patient_id = patient_id
                     /\ followups[f].status \in AwaitingStatuses}
    IN {f \in match : \A g \in match : followups[g].created_at <= followups[f].created_at}

NewPatientMessage_AsAgent(Body, t) == Message("agent", Body, t)

NewPatientMessage(Body, t) == Message("patient", Body, t)

WebhookIngestUpdate(docs, f, Body, t) ==
    PushAndSetStatus(docs, f, NewPatientMessage(Body, t), "waiting_for_doctor")

WebhookNoPatient(sid) ==
    /\ FindPatientByPhone(StripWhatsappPrefix(PayloadFrom(sid))) = None
    /\ resp' = Response("webhook", "success", "Patient not found.")
    /\ delivered' = delivered \cup {sid}
    /\ Spend
    /\ UNCHANGED <<toolruns, schedVars, issued, followups, drafts, decisions, bookings, gateway, initialized, now>>

WebhookNoFollowup(sid) ==
    LET patient == FindPatientByPhone(StripWhatsappPrefix(PayloadFrom(sid))) IN
    /\ patient # None
    /\ get_latest_followup_for_patient(patient) = {}
    /\ resp' = Response("webhook", "success", "No active followup.")
    /\ delivered' = delivered \cup {sid}
    /\ Spend
    /\ UNCHANGED <<toolruns, schedVars, issued, followups, drafts, decisions, bookings, gateway, initialized, now>>

WebhookAppointment(sid) ==
    LET patient == FindPatientByPhone(StripWhatsappPrefix(PayloadFrom(sid))) IN
    /\ patient # None
    /\ \E f \in get_latest_followup_for_patient(patient) :
          /\ followups[f].status = "appointment_scheduling"
          /\ IF initialized
             THEN /\ FreeSlot(bookings) # 0
                  /\ bookings' = [bookings EXCEPT ![FreeSlot(bookings)] =
                        [pc |-> "queued", sid |-> sid, followup_id |-> f,
                         patient_id |-> patient, message_content |-> PayloadBody(sid),
                         decision |-> None, responded |-> TRUE]]
                  /\ resp' = Response("webhook", "success", "Appointment booking initiated.")
             ELSE /\ bookings' = bookings
                  /\ resp' = Response("webhook", "error", "Appointment agent not available.")
    /\ delivered' = delivered \cup {sid}
    /\ Spend
    /\ UNCHANGED <<toolruns, schedVars, issued, followups, drafts, decisions, gateway, initialized, now>>

WebhookIngest_AnyStatus(sid) ==
    LET patient == FindPatientByPhone(StripWhatsappPrefix(PayloadFrom(sid))) IN
    /\ patient # None
    /\ \E f \in get_latest_followup_for_patient(patient) :
          /\ HistoryRoom(f)
          /\ FreeSlot(drafts) # 0
          /\ followups' = WebhookIngestUpdate(followups, f, PayloadBody(sid), now)
          /\ drafts' = [drafts EXCEPT ![FreeSlot(drafts)] =
                [pc |-> "drafting", sid |-> sid, followup_id |-> f,
                 patient_id |-> patient, message_content |-> PayloadBody(sid),
                 decision |-> None, responded |-> FALSE]]
    /\ delivered' = delivered \cup {sid}
    /\ Spend
    /\ UNCHANGED <<toolruns, schedVars, issued, decisions, bookings, gateway, resp, initialized, now>>

\* Lines 79-108: the history append, then the handler awaits
\* process_patient_response; its response is returned when that finishes.
WebhookIngest(sid) ==
    LET patient == FindPatientByPhone(StripWhatsappPrefix(PayloadFrom(sid))) IN
    /\ patient # None
    /\ \E f \in get_latest_followup_for_patient(patient) :
          /\ followups[f].status # "appointment_scheduling"
          /\ HistoryRoom(f)
          /\ FreeSlot(drafts) # 0
          /\ followups' = WebhookIngestUpdate(followups, f, PayloadBody(sid), now)
          /\ drafts' = [drafts EXCEPT ![FreeSlot(drafts)] =
                [pc |-> "drafting", sid |-> sid, followup_id |-> f,
                 patient_id |-> patient, message_content |-> PayloadBody(sid),
                 decision |-> None, responded |-> FALSE]]
    /\ delivered' = delivered \cup {sid}
    /\ Spend
    /\ UNCHANGED <<toolruns, schedVars, issued, decisions, bookings, gateway, resp, initialized, now>>

whatsapp_webhook(sid) ==
    \/ WebhookNoPatient(sid)
    \/ WebhookNoFollowup(sid)
    \/ WebhookAppointment(sid)
    \/ WebhookIngest(sid)

\* The write process_patient_response makes once the agent run is over.
\* A variant whose failure path also overwrites the stored draft.
DraftUpdate_ClearsOnFailure(docs, f, content, outcome) ==
    SetFields(docs, f, [extracted_data |-> content,
                        ai_draft_message |-> IF outcome = "ok" THEN DraftFor(content) ELSE "",
                        note |-> IF outcome = "failed" THEN NoteFailed ELSE NoteProcessed])

DraftUpdate(docs, f, content, outcome) ==
    CASE outcome = "ok" ->
            SetFields(docs, f, [extracted_data |-> content,
                                ai_draft_message |-> DraftFor(content),
                                note |-> NoteProcessed])
      [] outcome = "empty" ->
            SetFields(docs, f, [extracted_data |-> content,
                                ai_draft_message |-> "",
                                note |-> NoteProcessed])
      [] outcome = "failed" ->
            SetFields(docs, f, [note |-> NoteFailed])

process_patient_response(s, outcome) ==
    /\ drafts[s].pc = "drafting"
    /\ followups' = DraftUpdate(followups, drafts[s].followup_id,
                                drafts[s].message_content, outcome)
    /\ drafts' = [drafts EXCEPT ![s] = IdleFrame]
    /\ resp' = Response("webhook", "success",
                        "Patient response received and processing initiated.")
    /\ Spend
    /\ UNCHANGED <<toolruns, schedVars, issued, delivered, decisions, bookings, gateway, initialized, now>>

----------------------------------------------------------------------------
(* POST /settings/{doctor_id}/whatsapp/send-reminder                       *)

NewReminderFollowup(doctor_id, patient_id, t) ==
    [patient_id |-> patient_id, doctor_id |-> doctor_id, status |-> None,
     history |-> <<>>, extracted_data |-> None, note |-> None,
     ai_draft_message |-> ReminderDraft, doctor_decision |-> "approved",
     final_message_sent |-> TRUE, final_message |-> None,
     appointment_details |-> NoAppointment, created_at |-> t]

send_follow_up_reminder_route(p, ok) ==
    /\ gateway' = GatewayCall(PatientPhone(p), ReminderMessage, ok)
    /\ IF ok
       THEN /\ issued < MaxFollowups
            /\ followups' = followups @@
                  (issued + 1 :> NewReminderFollowup(PatientDoctor(p), p, now))
            /\ issued' = issued + 1
            /\ resp' = Response("send-reminder", "success", "Follow-up reminder sent")
       ELSE /\ followups' = followups
            /\ issued' = issued
            /\ resp' = Response("send-reminder", "error", "Failed to send reminder")
    /\ Spend
    /\ UNCHANGED <<toolruns, schedVars, delivered, drafts, decisions, bookings, initialized, now>>

----------------------------------------------------------------------------
(* AgentRegistry.initialize                                                *)

initialize(ok) ==
    /\ initialized' = (initialized \/ ok)
    /\ resp' = Response("initialize", IF initialized \/ ok THEN "success" ELSE "error", None)
    /\ Spend
    /\ UNCHANGED <<toolruns, schedVars, issued, delivered, followups, drafts, decisions, bookings, gateway, now>>

----------------------------------------------------------------------------
(* The send_whatsapp_message tool, called by an agent run                  *)

ToolHistoryUpdate(docs, followup_id, message, t) ==
    PushAndSetStatus(docs, followup_id, Message("agent", message, t), "waiting_for_patient")

send_whatsapp_message(patient_phone, message, followup_id, ok) ==
    /\ initialized
    /\ gateway' = GatewayCall(patient_phone, message, ok)
    /\ IF ok /\ followup_id # 0
       THEN /\ HistoryRoom(followup_id)
            /\ followups' = ToolHistoryUpdate(followups, followup_id, message, now)
       ELSE followups' = followups
    /\ Spend
    /\ UNCHANGED <<toolruns, schedVars, issued, delivered, drafts, decisions, bookings, resp, initialized, now>>

\* The tool as a worker thread runs it: the gateway call, then the entry is
\* built with datetime.now(), and in a later step update_one pushes it.
ToolRun(followup_id, message, t) ==
    [followup_id |-> followup_id, message |-> message, timestamp |-> t]

send_whatsapp_message_stamp(patient_phone, message, followup_id, ok) ==
    /\ initialized
    /\ gateway' = GatewayCall(patient_phone, message, ok)
    /\ IF ok /\ followup_id # 0
       THEN /\ Cardinality(toolruns) < MaxInflight
            /\ toolruns' = toolruns \cup {ToolRun(followup_id, message, now)}
       ELSE toolruns' = toolruns
    /\ Spend
    /\ UNCHANGED <<followups, schedVars, issued, delivered, drafts, decisions, bookings,
                   resp, initialized, now>>

send_whatsapp_message_push(r) ==
    /\ r \in toolruns
    /\ HistoryRoom(r.followup_id)
    /\ followups' = ToolHistoryUpdate(followups, r.followup_id, r.message, r.timestamp)
    /\ toolruns' = toolruns \ {r}
    /\ Spend
    /\ UNCHANGED <<schedVars, issued, delivered, drafts, decisions, bookings, gateway,
                   resp, initialized, now>>

----------------------------------------------------------------------------
(* AgentRegistry.doctor_decision / MessageAnalysisAgent.doctor_decision    *)

ResolveMessage_EmptyAccepted(followup, decision, custom_message) ==
    IF decision = "approve"
    THEN IF followup.ai_draft_message = None
         THEN [ok |-> FALSE, value |-> "'ai_draft_message'"]
         ELSE [ok |-> TRUE, value |-> followup.ai_draft_message]
    ELSE IF decision \in {"edit", "custom"}
         THEN IF custom_message = None
              THEN [ok |-> FALSE,
                    value |-> "Custom message is required for 'edit' or 'custom' decisions."]
              ELSE [ok |-> TRUE, value |-> custom_message]
         ELSE [ok |-> FALSE, value |-> "Invalid decision."]

\* Lines 386-394: the text to send, or the error the call returns.
ResolveMessage(followup, decision, custom_message) ==
    IF decision = "approve"
    THEN IF followup.ai_draft_message = None
         THEN [ok |-> FALSE, value |-> "'ai_draft_message'"]
         ELSE [ok |-> TRUE, value |-> followup.ai_draft_message]
    ELSE IF decision \in {"edit", "custom"}
         THEN IF custom_message = None \/ custom_message = ""
              THEN [ok |-> FALSE,
                    value |-> "Custom message is required for 'edit' or 'custom' decisions."]
              ELSE [ok |-> TRUE, value |-> custom_message]
         ELSE [ok |-> FALSE, value |-> "Invalid decision."]

\* Up to the await of portia.run: lookups and validation.
doctor_decision_call(followup_id, decision, custom_message) ==
    /\ IF ~initialized
       THEN /\ resp' = Response("doctor_decision", "failure", "Agent registry not initialized")
            /\ decisions' = decisions
       ELSE IF ~Exists(followup_id)
       THEN /\ resp' = Response("doctor_decision", "failure", "Followup not found")
            /\ decisions' = decisions
       ELSE LET m == ResolveMessage(followups[followup_id], decision, custom_message) IN
            IF ~m.ok
            THEN /\ resp' = Response("doctor_decision", "failure", m.value)
                 /\ decisions' = decisions
            ELSE /\ FreeSlot(decisions) # 0
                 /\ decisions' = [decisions EXCEPT ![FreeSlot(decisions)] =
                       [pc |-> "sending", sid |-> None, followup_id |-> followup_id,
                        patient_id |-> followups[followup_id].patient_id,
                        message_content |-> m.value, decision |-> decision,
                        responded |-> FALSE]]
                 /\ resp' = resp
    /\ Spend
    /\ UNCHANGED <<toolruns, schedVars, issued, delivered, followups, drafts, bookings, gateway, initialized, now>>

DecisionUpdate(docs, f, decision, message_to_send) ==
    SetFields(docs, f, [doctor_decision |-> decision,
                        final_message_sent |-> TRUE,
                        final_message |-> message_to_send])

\* The agent run (the gateway send through the tool, without a followup
\* id) and the update that follows it.
doctor_decision_finish(s, outcome) ==
    /\ decisions[s].pc = "sending"
    /\ decisions' = [decisions EXCEPT ![s] = IdleFrame]
    /\ IF outcome = "raised"
       THEN /\ resp' = Response("doctor_decision", "failure", "agent run raised")
            /\ UNCHANGED <<followups, gateway>>
       ELSE /\ gateway' = GatewayCall(PatientPhone(decisions[s].patient_id),
                                       decisions[s].message_content,
                                       outcome = "sent")
            /\ followups' = DecisionUpdate(followups, decisions[s].followup_id,
                                           decisions[s].decision,
                                           decisions[s].message_content)
            /\ resp' = Response("doctor_decision", "success",
                                "Doctor's decision processed and message sent.")
    /\ Spend
    /\ UNCHANGED <<toolruns, schedVars, issued, delivered, drafts, bookings, initialized, now>>

----------------------------------------------------------------------------
(* PUT /followups/{followup_id}                                            *)

\* update_fields: the fields the caller set (None: not set).
UpdateFields(status, ai_draft_message) ==
    (IF status = None THEN << >> ELSE [status |-> status])
    @@ (IF ai_draft_message = None THEN << >>
        ELSE [ai_draft_message |-> ai_draft_message])

update_followup(followup_id, status, ai_draft_message) ==
    /\ IF ~Exists(followup_id)
       THEN /\ resp' = Response("update_followup", "500", "404: Followup not found")
            /\ followups' = followups
       ELSE IF DOMAIN UpdateFields(status, ai_draft_message) = {}
       THEN /\ resp' = Response("update_followup", "500", "400: No valid fields to update")
            /\ followups' = followups
       ELSE /\ followups' = SetFields(followups, followup_id,
                                      UpdateFields(status, ai_draft_message))
            /\ resp' = Response("update_followup", "success", None)
    /\ Spend
    /\ UNCHANGED <<toolruns, schedVars, issued, delivered, drafts, decisions, bookings, gateway, initialized, now>>

----------------------------------------------------------------------------
(* POST /agents/appointment/book and the booking task                      *)

start_appointment_booking(followup_id, patient_id, ok) ==
    /\ IF ~initialized
       THEN /\ resp' = Response("appointment_book", "503", "Appointment agent not available")
            /\ UNCHANGED <<followups, gateway>>
       ELSE /\ gateway' = GatewayCall(PatientPhone(patient_id),
                                       AppointmentRequestMessage, ok)
            /\ IF ok
               THEN /\ HistoryRoom(followup_id)
                    /\ followups' = PushAndSetStatus(followups, followup_id,
                                        Message("agent", AppointmentRequestMessage, now),
                                        "appointment_scheduling")
               ELSE followups' = followups
            /\ resp' = Response("appointment_book", "success",
                                "Appointment booking process started.")
    /\ Spend
    /\ UNCHANGED <<toolruns, schedVars, issued, delivered, drafts, decisions, bookings, initialized, now>>

\* The details read from the create-event output of the agent run.
AppointmentData(patient_response) ==
    [event_title |-> "Appointment", start_time |-> patient_response,
     end_time |-> patient_response, gcal_event_id |-> "event1"]

\* A variant that stores the details and leaves the status as it is.
BookingUpdate_KeepsStatus(docs, f, patient_response) ==
    SetFields(docs, f, [appointment_details |-> AppointmentData(patient_response)])

BookingUpdate(docs, f, patient_response) ==
    SetFields(docs, f, [status |-> "completed",
                        appointment_details |-> AppointmentData(patient_response)])

\* outcome: the agent run created a calendar event, ended without one, or raised.
book_appointment(s, outcome, ok) ==
    /\ bookings[s].pc = "queued"
    /\ bookings' = [bookings EXCEPT ![s] = IdleFrame]
    /\ IF outcome = "created"
       THEN /\ followups' = BookingUpdate(followups, bookings[s].followup_id,
                                          bookings[s].message_content)
            /\ gateway' = GatewayCall(PatientPhone(bookings[s].patient_id),
                                       ConfirmationMessage, ok)
       ELSE UNCHANGED <<followups, gateway>>
    /\ Spend
    /\ UNCHANGED <<toolruns, schedVars, issued, delivered, drafts, decisions, resp, initialized, now>>

----------------------------------------------------------------------------
(* SchedulerService and the jobs it runs                                   *)

\* timedelta(seconds=30): how far ahead a reminder time in the past is moved.
ClampSeconds == 30

\* misfire_grace_time of a reminder job, in seconds.
MisfireGrace == 300

\* timedelta(days=30), the age from which the sweep deletes.
RetentionDays == 30

SecondsPerDay == 86400

\* An id as the routes hand it around, str(ObjectId), and as the store
\* keeps it, ObjectId.  The collection stands for the uniqueness of
\* ObjectIds across collections.
StrId(coll, n) == [kind |-> "str", coll |-> coll, n |-> n]

Oid(coll, n) == [kind |-> "oid", coll |-> coll, n |-> n]

\* find / update_one / delete with {"_id": id}: the _id of a stored
\* document is an ObjectId, which no str equals.
FilterById(docs, id) == {d \in DOMAIN docs : id.kind = "oid" /\ id.n = d}

UpdateOneById(docs, id, fields) ==
    IF FilterById(docs, id) = {}
    THEN docs
    ELSE LET d == CHOOSE d \in FilterById(docs, id) : TRUE
         IN [docs EXCEPT ![d] = fields @@ docs[d]]

\* f"followup_reminder_{remainder_id}_{int(datetime.utcnow().timestamp())}"
JobId(remainder_id, t) == [record |-> remainder_id, second |-> t]

NoJobId == [record |-> StrId(None, 0), second |-> 0 - 1]

SchedReturn(op, job_id, ok) == [op |-> op, job_id |-> job_id, ok |-> ok]

Job(job_id, run_date, remainder_id, patient_id) ==
    [id |-> job_id, run_date |-> run_date, remainder_id |-> remainder_id,
     patient_id |-> patient_id]

HasJob(store, job_id) == \E j \in store : j.id = job_id

\* scheduler.add_job(..., id=job_id, replace_existing=True)
AddJob(store, job) == {j \in store : j.id # job.id} \cup {job}

\* scheduler.remove_job(job_id); JobLookupError when the id is not stored.
RemoveJob(store, job_id) == {j \in store : j.id # job_id}

scheduler_initialize(ok) ==
    /\ sched_initialized' = (sched_initialized \/ ok)
    /\ sched_ret' = SchedReturn("initialize", NoJobId, sched_initialized \/ ok)
    /\ Spend
    /\ UNCHANGED <<toolruns, followups, drafts, decisions, bookings, gateway, delivered, resp,
                   initialized, now, issued, remainders, jobs, fired, cancelled>>

\* The process stops; the job store is a database collection and stays.
scheduler_shutdown ==
    /\ sched_initialized
    /\ sched_initialized' = FALSE
    /\ sched_ret' = SchedReturn("shutdown", NoJobId, TRUE)
    /\ Spend
    /\ UNCHANGED <<toolruns, followups, drafts, decisions, bookings, gateway, delivered, resp,
                   initialized, now, issued, remainders, jobs, fired, cancelled>>

\* A variant that keeps a time in the past as the run time.
ReminderTime_Unclamped(followup_datetime, t) == followup_datetime

ReminderTime(followup_datetime, t) ==
    IF followup_datetime <= t THEN t + ClampSeconds ELSE followup_datetime

\* What schedule_follow_up_reminder does to the job store, the followups and
\* its return value; stored = FALSE: add_job raised.
ScheduleEffect(store, docs, remainder_id, patient_id, followup_datetime, t, stored) ==
    IF ~sched_initialized \/ ~stored
    THEN [jobs |-> store, followups |-> docs, ret |-> NoJobId]
    ELSE [jobs |-> AddJob(store, Job(JobId(remainder_id, t),
                                     ReminderTime(followup_datetime, t),
                                     remainder_id, patient_id)),
          followups |-> UpdateOneById(docs, remainder_id,
                                      [scheduled_job_id |-> JobId(remainder_id, t)]),
          ret |-> JobId(remainder_id, t)]

schedule_follow_up_reminder(remainder_id, patient_id, followup_datetime, stored) ==
    LET e == ScheduleEffect(jobs, followups, remainder_id, patient_id,
                            followup_datetime, now, stored) IN
    /\ jobs' = e.jobs
    /\ followups' = e.followups
    /\ sched_ret' = SchedReturn("schedule", e.ret, e.ret # NoJobId)
    /\ Spend
    /\ UNCHANGED <<toolruns, drafts, decisions, bookings, gateway, delivered, resp, initialized,
                   now, issued, remainders, sched_initialized, fired, cancelled>>

\* A variant that reports success for a job the store does not hold.
CancelOk_Always(store, job_id) == sched_initialized

CancelOk(store, job_id) == sched_initialized /\ HasJob(store, job_id)

\* The record of a cancel that returned True.
Cancelled(store, job_id, t, caller) ==
    {[id |-> j.id, run_date |-> j.run_date, at |-> t, by |-> caller] :
        j \in {k \in store : k.id = job_id}}

CancelLog(store, job_id, t, caller) ==
    IF CancelOk(store, job_id) THEN Cancelled(store, job_id, t, caller) ELSE {}

CancelEffect(store, job_id) ==
    IF CancelOk(store, job_id) THEN RemoveJob(store, job_id) ELSE store

cancel_follow_up_reminder(job_id) ==
    /\ jobs' = CancelEffect(jobs, job_id)
    /\ cancelled' = cancelled \cup CancelLog(jobs, job_id, now, "cancel")
    /\ sched_ret' = SchedReturn("cancel", job_id, CancelOk(jobs, job_id))
    /\ Spend
    /\ UNCHANGED <<toolruns, followups, drafts, decisions, bookings, gateway, delivered, resp,
                   initialized, now, issued, remainders, sched_initialized, fired>>

\* Cancel the old job, whatever that returns, then schedule the new one.
reschedule_follow_up_reminder(remainder_id, old_job_id, new_followup_datetime, patient_id, stored) ==
    LET e == ScheduleEffect(CancelEffect(jobs, old_job_id), followups, remainder_id,
                            patient_id, new_followup_datetime, now, stored) IN
    /\ jobs' = e.jobs
    /\ followups' = e.followups
    /\ cancelled' = cancelled \cup CancelLog(jobs, old_job_id, now, "reschedule")
    /\ sched_ret' = SchedReturn("reschedule", e.ret, e.ret # NoJobId)
    /\ Spend
    /\ UNCHANGED <<toolruns, drafts, decisions, bookings, gateway, delivered, resp, initialized,
                   now, issued, remainders, sched_initialized, fired>>

\* trigger_follow_up(self, patient_id, doctor_id) takes two arguments; the
\* scheduled job calls it with three.
TriggerFollowUpParams == 2

FireCallArgs == 3

\* The error with which the job's try block ends (None: it ends normally).
FireError ==
    IF ~initialized THEN "Follow-up agent not available"
    ELSE IF FireCallArgs # TriggerFollowUpParams THEN "TypeError"
    ELSE None

\* The writes of _send_follow_up_reminder, each filtered by the str id the
\* job carries.  The first $set holds the key "$inc", which is no increment.
SendReminderEffect(docs, followup_id, t) ==
    LET processing == UpdateOneById(docs, followup_id,
                                    [status |-> "processing", last_attempt |-> t])
    IN IF FireError = None
       THEN UpdateOneById(processing, followup_id, [status |-> "completed"])
       ELSE UpdateOneById(processing, followup_id,
                          [status |-> "failed", error_message |-> FireError])

\* The scheduler runs a due job and drops it from the store.
Fire(j) ==
    /\ sched_initialized
    /\ j \in jobs
    /\ j.run_date <= now
    /\ now - j.run_date <= MisfireGrace
    /\ jobs' = jobs \ {j}
    /\ fired' = fired \cup {j.id}
    /\ followups' = SendReminderEffect(followups, j.remainder_id, now)
    /\ Spend
    /\ UNCHANGED <<toolruns, drafts, decisions, bookings, gateway, delivered, resp, initialized,
                   now, issued, remainders, sched_initialized, sched_ret, cancelled>>

\* A job found later than its grace time is dropped without being run.
Misfire(j) ==
    /\ sched_initialized
    /\ j \in jobs
    /\ now - j.run_date > MisfireGrace
    /\ jobs' = jobs \ {j}
    /\ Spend
    /\ UNCHANGED <<toolruns, followups, drafts, decisions, bookings, gateway, delivered, resp,
                   initialized, now, issued, remainders, sched_initialized, sched_ret,
                   fired, cancelled>>

SweptStatuses == {"sent", "failed", "completed"}

\* delete_many on db.followups: created_at before the cutoff, status swept.
\* A variant that sweeps terminal records of any age.
CleanupMatches_AnyAge(docs, t) ==
    {d \in DOMAIN docs : docs[d].status \in SweptStatuses}

CleanupMatches(docs, t) ==
    {d \in DOMAIN docs :
        /\ docs[d].created_at < t - RetentionDays * SecondsPerDay
        /\ docs[d].status \in SweptStatuses}

\* The daily job: it exists once the scheduler has been initialized.  Its
\* outcome (deleted_count > 0) is what it logs.
_cleanup_old_jobs ==
    /\ sched_initialized
    /\ followups' = [d \in DOMAIN followups \ CleanupMatches(followups, now)
                        |-> followups[d]]
    /\ sched_ret' = SchedReturn("cleanup", NoJobId, CleanupMatches(followups, now) # {})
    /\ Spend
    /\ UNCHANGED <<toolruns, drafts, decisions, bookings, gateway, delivered, resp, initialized,
                   now, issued, remainders, sched_initialized, jobs, fired, cancelled>>

\* Time passes.
Elapse(d) ==
    /\ now' = now + d
    /\ Spend
    /\ UNCHANGED <<toolruns, followups, drafts, decisions, bookings, gateway, delivered, resp,
                   initialized, issued, schedVars>>

----------------------------------------------------------------------------
(* POST /patients and POST /patients/{patient_id}/reschedule               *)

\* The followup record create_patient inserts: its created_at is the
\* follow-up time, and it has neither a status nor a history.
NewScheduledFollowup(doctor_id, patient_id, followup_datetime) ==
    [patient_id |-> patient_id, doctor_id |-> doctor_id, status |-> None,
     history |-> <<>>, extracted_data |-> "scheduled_datetime", note |-> None,
     ai_draft_message |-> "Follow-up scheduled", doctor_decision |-> "scheduled",
     final_message_sent |-> FALSE, final_message |-> None,
     appointment_details |-> NoAppointment, created_at |-> followup_datetime]

NewRemainder(doctor_id, patient_id, followup_datetime, t) ==
    [doctor_id |-> doctor_id, patient_id |-> patient_id,
     followup_date |-> followup_datetime, status |-> "pending", created_at |-> t,
     scheduled_job_id |-> NoJobId, attempts |-> 0, last_attempt |-> None,
     error_message |-> None]

\* The routes call schedule_follow_up_reminder with advance_hours=24, a
\* keyword the method does not take: the call raises TypeError and the
\* method's body is not entered.
ScheduleWithAdvanceHoursRaises == TRUE

\* doctor_object_id = ObjectId(patient.doctor_id): no str equals it.
DoctorObjectId(doctor_id) == "ObjectId(d1)"

\* The branch with a follow-up date and time; the patient is one of
\* Patients.  Both records are inserted before the scheduling call.
create_patient(p, followup_datetime) ==
    /\ issued < MaxFollowups
    /\ followups' = followups @@
          (issued + 1 :> NewScheduledFollowup(DoctorObjectId(PatientDoctor(p)), p,
                                              followup_datetime))
    /\ issued' = issued + 1
    /\ remainders' = remainders @@
          (Cardinality(DOMAIN remainders) + 1 :>
              NewRemainder(DoctorObjectId(PatientDoctor(p)), p, followup_datetime, now))
    /\ resp' = IF sched_initialized /\ ScheduleWithAdvanceHoursRaises
               THEN Response("create_patient", "500", "TypeError")
               ELSE Response("create_patient", "201", "scheduled_reminder: false")
    /\ Spend
    /\ UNCHANGED <<toolruns, drafts, decisions, bookings, gateway, delivered, initialized, now,
                   sched_initialized, jobs, sched_ret, fired, cancelled>>

\* One pass of the loop over the patient's reminders.
RescheduleReminder(rem, new_followup_datetime) ==
    IF sched_initialized /\ ScheduleWithAdvanceHoursRaises
    THEN rem
    ELSE [followup_date |-> new_followup_datetime, scheduled_job_id |-> NoJobId,
          status |-> "failed"] @@ rem

reschedule_followup(p, new_followup_datetime) ==
    LET reminders == {r \in DOMAIN remainders : remainders[r].patient_id = p} IN
    /\ IF new_followup_datetime <= now
       THEN /\ resp' = Response("reschedule_followup", "400",
                                "Follow-up date must be in the future.")
            /\ UNCHANGED <<followups, remainders>>
       ELSE IF reminders = {}
       THEN /\ resp' = Response("reschedule_followup", "404",
                                "No reminders found for this patient.")
            /\ UNCHANGED <<followups, remainders>>
       ELSE /\ remainders' = [r \in DOMAIN remainders |->
                                IF r \in reminders
                                THEN RescheduleReminder(remainders[r], new_followup_datetime)
                                ELSE remainders[r]]
            /\ followups' = [f \in DOMAIN followups |->
                                IF followups[f].patient_id = p
                                   /\ ~(sched_initialized /\ ScheduleWithAdvanceHoursRaises)
                                THEN [followups[f] EXCEPT !.created_at = new_followup_datetime]
                                ELSE followups[f]]
            /\ resp' = Response("reschedule_followup", "200", "Successfully rescheduled")
    /\ Spend
    /\ UNCHANGED <<toolruns, drafts, decisions, bookings, gateway, delivered, initialized, now,
                   issued, sched_initialized, jobs, sched_ret, fired, cancelled>>

----------------------------------------------------------------------------
(* GET, DELETE /followups/{followup_id} and POST .../send-now              *)

\* find_one({"_id": ObjectId(followup_id), "doctor_id": doctor_id})
FindOwned(followup_id, doctor_id) ==
    Exists(followup_id) /\ followups[followup_id].doctor_id = doctor_id

\* raise HTTPException(404) inside the try block: except Exception catches
\* it and raises HTTPException(500) with the text of the first.
NotFoundResponse(op) == Response(op, "500", "404: Followup not found")

get_followup(followup_id, doctor_id) ==
    /\ resp' = IF FindOwned(followup_id, doctor_id)
               THEN Response("get_followup", "200", None)
               ELSE NotFoundResponse("get_followup")
    /\ Spend
    /\ UNCHANGED <<toolruns, followups, drafts, decisions, bookings, gateway, delivered,
                   initialized, now, issued, schedVars>>

\* The job id a followup document carries.  No code path stores one:
\* create_followup raises before its insert, and the scheduler's own
\* write-back filters on a str id.
ScheduledJobOf(doc) ==
    IF "scheduled_job_id" \in DOMAIN doc THEN doc.scheduled_job_id ELSE NoJobId

delete_followup(followup_id, doctor_id) ==
    /\ IF ~FindOwned(followup_id, doctor_id)
       THEN /\ resp' = NotFoundResponse("delete_followup")
            /\ UNCHANGED <<followups, jobs, cancelled>>
       ELSE /\ jobs' = IF ScheduledJobOf(followups[followup_id]) # NoJobId
                       THEN CancelEffect(jobs, ScheduledJobOf(followups[followup_id]))
                       ELSE jobs
            /\ cancelled' = IF ScheduledJobOf(followups[followup_id]) # NoJobId
                            THEN cancelled \cup CancelLog(jobs,
                                     ScheduledJobOf(followups[followup_id]), now,
                                     "delete_followup")
                            ELSE cancelled
            /\ followups' = [f \in DOMAIN followups \ {followup_id} |-> followups[f]]
            /\ resp' = Response("delete_followup", "204", None)
    /\ Spend
    /\ UNCHANGED <<toolruns, drafts, decisions, bookings, gateway, delivered, initialized, now,
                   issued, remainders, sched_initialized, sched_ret, fired>>

\* A found followup has no followup_date: the lookup raises KeyError before
\* anything is sent or written.
send_followup_now(followup_id, doctor_id) ==
    /\ resp' = IF FindOwned(followup_id, doctor_id)
               THEN Response("send_followup_now", "500", "'followup_date'")
               ELSE NotFoundResponse("send_followup_now")
    /\ Spend
    /\ UNCHANGED <<toolruns, followups, drafts, decisions, bookings, gateway, delivered,
                   initialized, now, issued, schedVars>>

----------------------------------------------------------------------------
(* The operations of AgentRegistry                                         *)

\* A variant that takes the registry for initialized whatever happened.
RegistryReady_Always == TRUE

\* if not self._initialized: return a failure result.
RegistryReady == initialized

RegistryNotInitialized(op) == Response(op, "failure", "Agent registry not initialized")

\* The followup analyze_patient_message upserts when the patient has none.
NewAnalysisFollowup(doctor_id, patient_id, t) ==
    [patient_id |-> patient_id, doctor_id |-> doctor_id, status |-> None,
     history |-> <<>>, extracted_data |-> None, note |-> None,
     ai_draft_message |-> None, doctor_decision |-> "pending_review",
     final_message_sent |-> FALSE, final_message |-> None,
     appointment_details |-> NoAppointment, created_at |-> t]

\* analyze_patient_message: the update before the agent runs, then the
\* agent's output (outcome = "failed": the run raised, which is caught).
AnalyzeUpdate(docs, f, Body, outcome) ==
    LET before == SetFields(docs, f, [extracted_data |-> Body,
                                      doctor_decision |-> "pending_review",
                                      final_message_sent |-> FALSE])
    IN IF outcome = "ok"
       THEN SetFields(before, f, [ai_draft_message |-> DraftFor(Body)])
       ELSE before

\* find_one({"patient_id": ...}, sort created_at descending): the documents
\* the query can return.
LatestOfPatient(p) ==
    LET match == {f \in DOMAIN followups : followups[f].patient_id = p}
    IN {f \in match : \A g \in match : followups[g].created_at <= followups[f].created_at}

AnalysisResponse(outcome) ==
    IF outcome = "ok"
    THEN Response("process_patient_message", "success",
                  "Patient message analyzed, pending doctor review.")
    ELSE Response("process_patient_message", "failure", "agent run failed")

process_patient_message(p, Body, outcome) ==
    /\ IF ~RegistryReady
       THEN /\ resp' = RegistryNotInitialized("process_patient_message")
            /\ UNCHANGED <<followups, issued>>
       ELSE /\ resp' = AnalysisResponse(outcome)
            /\ IF LatestOfPatient(p) # {}
               THEN /\ \E f \in LatestOfPatient(p) :
                          followups' = AnalyzeUpdate(followups, f, Body, outcome)
                    /\ issued' = issued
               ELSE /\ issued < MaxFollowups
                    /\ followups' = AnalyzeUpdate(
                          followups @@ (issued + 1 :>
                              NewAnalysisFollowup(PatientDoctor(p), p, now)),
                          issued + 1, Body, outcome)
                    /\ issued' = issued + 1
    /\ Spend
    /\ UNCHANGED <<toolruns, schedVars, delivered, drafts, decisions, bookings, gateway,
                   initialized, now>>

\* follow_up_agent.trigger_follow_up looks the patient up with the doctor id
\* as a str, the stored one is an ObjectId: "Patient not found".  Its dict is
\* then awaited, which raises TypeError; the registry catches it.
registry_send_follow_up_reminder(p) ==
    /\ resp' = IF ~RegistryReady
               THEN RegistryNotInitialized("send_follow_up_reminder")
               ELSE Response("send_follow_up_reminder", "failure", "TypeError")
    /\ Spend
    /\ UNCHANGED <<toolruns, followups, drafts, decisions, bookings, gateway, delivered,
                   initialized, now, issued, schedVars>>

\* approve_and_send_response: doctor_decision with decision 'approve' and the
\* final message as the custom message.
approve_and_send_response(followup_id, final_message) ==
    doctor_decision_call(followup_id, "approve", final_message)

\* get_agent_status, also the "agents" part of GET /health.
get_agent_status ==
    /\ resp' = Response("get_agent_status",
                        IF initialized THEN "initialized" ELSE "not_initialized", None)
    /\ Spend
    /\ UNCHANGED <<toolruns, followups, drafts, decisions, bookings, gateway, delivered,
                   initialized, now, issued, schedVars>>

----------------------------------------------------------------------------

Tick ==
    /\ now < MaxTime
    /\ now' = now + 1
    /\ Spend
    /\ UNCHANGED <<toolruns, schedVars, issued, delivered, followups, drafts, decisions, bookings, gateway, resp, initialized>>

Init ==
    /\ followups = << >>
    /\ drafts = [s \in Slots |-> IdleFrame]
    /\ decisions = [s \in Slots |-> IdleFrame]
    /\ bookings = [s \in Slots |-> IdleFrame]
    /\ gateway = GatewayCall(None, None, FALSE)
    /\ delivered = {}
    /\ resp = Response(None, None, None)
    /\ initialized \in BOOLEAN
    /\ now = 0
    /\ ops = 0
    /\ issued = 0
    /\ remainders = << >>
    /\ sched_initialized = FALSE
    /\ jobs = {}
    /\ sched_ret = SchedReturn(None, NoJobId, FALSE)
    /\ fired = {}
    /\ cancelled = {}
    /\ toolruns = {}

Next ==
    \/ \E sid \in MessageSids : whatsapp_webhook(sid)
    \/ \E s \in Slots, o \in {"ok", "failed"} : process_patient_response(s, o)
    \/ \E p \in Patients : send_follow_up_reminder_route(p, TRUE)
    \/ \E ok \in BOOLEAN : initialize(ok)
    \/ \E m \in ToolMessages, f \in FollowupIds \cup {0}, ok \in BOOLEAN :
          send_whatsapp_message(PatientPhone("p1"), m, f, ok)
    \/ \E f \in FollowupIds, d \in {"approve", "edit"}, c \in CustomMessages :
          doctor_decision_call(f, d, c)
    \/ \E s \in Slots, o \in {"sent", "send_failed"} : doctor_decision_finish(s, o)
    \/ \E f \in FollowupIds, st \in PutStatuses : update_followup(f, st, None)
    \/ \E f \in FollowupIds, p \in Patients : start_appointment_booking(f, p, TRUE)
    \/ \E s \in Slots, o \in {"created", "no_event"} : book_appointment(s, o, TRUE)
    \/ Tick

Spec == Init /\ [][Next]_vars

\* The inbound path alone: documents are inserted, put into a status by
\* the doctor, and receive patient messages.
NextIngest ==
    \/ \E sid \in MessageSids : whatsapp_webhook(sid)
    \/ \E s \in Slots, o \in {"ok", "empty", "failed"} : process_patient_response(s, o)
    \/ \E p \in Patients : send_follow_up_reminder_route(p, TRUE)
    \/ \E ok \in BOOLEAN : initialize(ok)
    \/ \E f \in FollowupIds, st \in PutStatuses : update_followup(f, st, None)
    \/ \E s \in Slots, o \in {"created", "no_event", "raised"} : book_appointment(s, o, TRUE)
    \/ Tick

SpecIngest == Init /\ [][NextIngest]_vars

\* The review path alone: a patient message is drafted and the doctor decides.
NextDecision ==
    \/ \E sid \in {"SM1", "SM2"} : WebhookIngest(sid)
    \/ \E s \in Slots, o \in {"ok", "empty", "failed"} : process_patient_response(s, o)
    \/ send_follow_up_reminder_route("p1", TRUE)
    \/ \E f \in FollowupIds, dr \in {None, "put_draft"} :
          update_followup(f, "waiting_for_patient", dr)
    \/ \E f \in FollowupIds, d \in Decisions, c \in CustomMessages :
          doctor_decision_call(f, d, c)
    \/ \E s \in Slots, o \in {"sent", "send_failed", "raised"} : doctor_decision_finish(s, o)

SpecDecision == Init /\ [][NextDecision]_vars

\* The scheduler alone: reminders are scheduled, cancelled, rescheduled and
\* run for the followup records of one patient.
RecordIds == {StrId("followups", 1), StrId("followups", 2)}

ScheduleTimes == {0, 60}

Durations == {ClampSeconds, MisfireGrace + ClampSeconds + 1}

UnknownJobId == JobId(StrId("followups", 0), 0)

\* The ids a record can carry as its current job: a stored job, or one the
\* store has lost.
StoredJobIds == {j.id : j \in jobs} \cup {UnknownJobId}

\* POST /followups.  FollowupCreate has no message_template field, so
\* building followup_data raises AttributeError once the date and the
\* patient have passed their checks: nothing is inserted or scheduled, and
\* every raise is answered as a 500 carrying the text of the error.
create_followup(p, followup_date) ==
    /\ resp' = IF followup_date <= now
               THEN Response("create_followup", "500",
                             "400: Follow-up date must be in the future")
               ELSE IF p \notin Patients
               THEN Response("create_followup", "500", "404: Patient not found")
               ELSE Response("create_followup", "500", "AttributeError")
    /\ Spend
    /\ UNCHANGED <<toolruns, followups, drafts, decisions, bookings, gateway, delivered,
                   initialized, now, issued, schedVars>>

KnownJobIds == StoredJobIds \cup fired \cup {c.id : c \in cancelled}

NextScheduler ==
    \/ scheduler_initialize(TRUE)
    \/ scheduler_shutdown
    \/ send_follow_up_reminder_route("p1", TRUE)
    \/ \E r \in RecordIds, t \in ScheduleTimes, stored \in BOOLEAN :
          schedule_follow_up_reminder(r, "p1", t, stored)
    \/ \E id \in KnownJobIds : cancel_follow_up_reminder(id)
    \/ \E r \in RecordIds, id \in StoredJobIds, t \in ScheduleTimes :
          reschedule_follow_up_reminder(r, id, t, "p1", TRUE)
    \/ \E j \in jobs : Fire(j)
    \/ \E j \in jobs : Misfire(j)
    \/ \E d \in Durations : Elapse(d)

\* The agents are up: whether they are changes only the error a run logs.
InitScheduler == Init /\ initialized

SpecScheduler == InitScheduler /\ [][NextScheduler]_vars

\* The records and the routes that read, delete and sweep them.
Doctors == {"d1", "d2"}

RecordStatuses == {"completed", "waiting_for_patient"}

NextRecords ==
    \/ scheduler_initialize(TRUE)
    \/ send_follow_up_reminder_route("p1", TRUE)
    \/ \E t \in ScheduleTimes : create_patient("p1", t)
    \/ \E p \in Patients, t \in ScheduleTimes : reschedule_followup(p, t)
    \/ \E f \in FollowupIds, st \in RecordStatuses : update_followup(f, st, None)
    \/ \E f \in FollowupIds, d \in Doctors : get_followup(f, d)
    \/ \E f \in FollowupIds, d \in Doctors : delete_followup(f, d)
    \/ \E f \in FollowupIds, d \in Doctors : send_followup_now(f, d)
    \/ _cleanup_old_jobs
    \/ Elapse((RetentionDays + 1) * SecondsPerDay)

SpecRecords == Init /\ [][NextRecords]_vars

\* A reminder job scheduled for a followup, and the followup deleted.
NextDelete ==
    \/ scheduler_initialize(TRUE)
    \/ scheduler_shutdown
    \/ send_follow_up_reminder_route("p1", TRUE)
    \/ \E p \in Patients \cup {"p0"}, t \in ScheduleTimes : create_followup(p, t)
    \/ \E r \in RecordIds, t \in ScheduleTimes :
          schedule_follow_up_reminder(r, "p1", t, TRUE)
    \/ \E f \in FollowupIds, d \in Doctors : delete_followup(f, d)
    \/ \E j \in jobs : Fire(j)
    \/ \E d \in Durations : Elapse(d)

SpecDelete == Init /\ [][NextDelete]_vars

\* The registry, initialized or not, and the operations called through it.
DraftOutcomes == {"ok", "failed"}

NextRegistry ==
    \/ \E ok \in BOOLEAN : initialize(ok)
    \/ send_follow_up_reminder_route("p1", TRUE)
    \/ \E o \in DraftOutcomes : process_patient_message("p1", "b1", o)
    \/ \E f \in FollowupIds : doctor_decision_call(f, "custom", "custom1")
    \/ \E s \in Slots, o \in {"sent", "send_failed"} : doctor_decision_finish(s, o)
    \/ registry_send_follow_up_reminder("p1")
    \/ \E f \in FollowupIds : approve_and_send_response(f, "custom1")
    \/ get_agent_status

SpecRegistry == Init /\ [][NextRegistry]_vars

\* Sends and ingests on one patient's followups, the tool run in threads.
NextHistory ==
    \/ send_follow_up_reminder_route("p1", TRUE)
    \/ \E m \in ToolMessages, f \in FollowupIds, ok \in BOOLEAN :
          send_whatsapp_message_stamp(PatientPhone("p1"), m, f, ok)
    \/ \E r \in toolruns : send_whatsapp_message_push(r)
    \/ \E sid \in {"SM1"} : WebhookIngest(sid)
    \/ \E s \in Slots : process_patient_response(s, "ok")
    \/ \E f \in FollowupIds : start_appointment_booking(f, "p1", TRUE)
    \/ Tick

SpecHistory == Init /\ [][NextHistory]_vars

\* Appointment booking: the request to the patient, the patient's answer and
\* the booking task, with a PUT that can move the followup in between.
BookingOutcomes == {"created", "no_event", "raised"}

NextBooking ==
    \/ send_follow_up_reminder_route("p1", TRUE)
    \/ \E f \in FollowupIds : start_appointment_booking(f, "p1", TRUE)
    \/ \E sid \in {"SM1", "SM2"} : WebhookAppointment(sid)
    \/ \E s \in Slots, o \in BookingOutcomes, ok \in BOOLEAN : book_appointment(s, o, ok)
    \/ \E f \in FollowupIds : update_followup(f, "waiting_for_patient", None)

SpecBooking == Init /\ [][NextBooking]_vars

----------------------------------------------------------------------------
(* Properties                                                              *)

\* The patient a webhook payload comes from (None: no patient has the number).
SenderOf(sid) ==
    IF \E p \in Patients : PatientPhone(p) = PayloadFrom(sid)[2]
    THEN CHOOSE p \in Patients : PatientPhone(p) = PayloadFrom(sid)[2]
    ELSE None

\* The followups an inbound message of patient p can be resolved to.
Newest(p) ==
    {f \in DOMAIN followups :
        /\ followups[f].patient_id = p
        /\ followups[f].status \in
              {"waiting_for_patient", "waiting_for_doctor", "appointment_scheduling"}
        /\ \A g \in DOMAIN followups :
              (/\ followups[g].patient_id = p
               /\ followups[g].status \in
                     {"waiting_for_patient", "waiting_for_doctor", "appointment_scheduling"})
              => followups[g].created_at <= followups[f].created_at}

HistoriesUnchanged ==
    \A f \in DOMAIN followups :
        f \in DOMAIN followups' /\ followups'[f].history = followups[f].history

\* C1: a webhook call that resolves to a followup in waiting_for_patient or
\* waiting_for_doctor appends exactly one entry, sender patient, carrying the
\* message body, to the history of that followup and changes no other
\* history; the drafting step that completes the call changes no history.
C1_OnePatientEntry ==
    [][/\ \A sid \in MessageSids :
            (/\ whatsapp_webhook(sid)
             /\ Newest(SenderOf(sid)) # {}
             /\ \A f \in Newest(SenderOf(sid)) :
                   followups[f].status \in {"waiting_for_patient", "waiting_for_doctor"})
            => \E f \in Newest(SenderOf(sid)) :
                  /\ followups'[f].history =
                        Append(followups[f].history,
                               [sender |-> "patient", content |-> PayloadBody(sid),
                                timestamp |-> now])
                  /\ \A g \in DOMAIN followups \ {f} :
                        followups'[g].history = followups[g].history
       /\ \A s \in Slots, o \in {"ok", "empty", "failed"} :
            process_patient_response(s, o) => HistoriesUnchanged]_vars

\* A second patient entry has been appended while another followup exists.
C1_Witness ==
    \E f \in DOMAIN followups :
        /\ Len(followups[f].history) = 2
        /\ followups[f].history[1].sender = "patient"
        /\ followups[f].history[2].sender = "patient"
        /\ DOMAIN followups # {f}

\* C2: a MessageSid that was delivered before appends nothing when it is
\* delivered again.
C2_RedeliveryAppendsNothing ==
    [][\A sid \in delivered : whatsapp_webhook(sid) => HistoriesUnchanged]_vars

\* C3: a followup in closed or completed keeps its status in every step.
C3_ClosedIsFinal ==
    [][\A f \in DOMAIN followups :
          (followups[f].status \in {"closed", "completed"} /\ f \in DOMAIN followups')
          => followups'[f].status = followups[f].status]_vars

\* C4: when an approve decision on a followup in waiting_for_doctor has sent
\* its message, the gateway got the stored draft and the followup is closed,
\* with final_message_sent set and doctor_decision approve.
C4_ApproveCloses ==
    [][\A s \in Slots :
          (/\ doctor_decision_finish(s, "sent")
           /\ decisions[s].decision = "approve"
           /\ decisions[s].followup_id \in DOMAIN followups
           /\ followups[decisions[s].followup_id].status = "waiting_for_doctor")
          => /\ gateway'.body = decisions[s].message_content
             /\ followups'[decisions[s].followup_id].status = "closed"
             /\ followups'[decisions[s].followup_id].final_message_sent
             /\ followups'[decisions[s].followup_id].doctor_decision = "approve"]_vars

\* C5: a decision outside approve, edit, custom, and an edit or custom
\* without text, is answered with a failure, starts no send and leaves the
\* followups as they are.
C5_InvalidDecisionRejected ==
    [][\A f \in FollowupIds, d \in Decisions, c \in CustomMessages :
          (/\ doctor_decision_call(f, d, c)
           /\ \/ d \notin {"approve", "edit", "custom"}
              \/ d \in {"edit", "custom"} /\ c \in {None, ""})
          => /\ resp'.op = "doctor_decision"
             /\ resp'.status = "failure"
             /\ gateway' = gateway
             /\ decisions' = decisions
             /\ followups' = followups]_vars

\* An edit without text was rejected for an existing followup.
C5_Witness ==
    /\ initialized
    /\ DOMAIN followups # {}
    /\ resp = Response("doctor_decision", "failure",
                       "Custom message is required for 'edit' or 'custom' decisions.")

\* The followup a webhook step works on: the one whose document it wrote or
\* for which it left a drafting call or a booking task.
Selected(f) ==
    \/ followups'[f] # followups[f]
    \/ \E s \in Slots : /\ drafts'[s] # drafts[s]
                        /\ drafts'[s].followup_id = f
    \/ \E s \in Slots : /\ bookings'[s] # bookings[s]
                        /\ bookings'[s].followup_id = f

\* C6: the followup the webhook ingests into belongs to the sending patient,
\* is in an awaiting status, and no awaiting followup of that patient has a
\* greater created_at.
C6_LatestAwaitingSelected ==
    [][\A sid \in MessageSids : whatsapp_webhook(sid) =>
          \A f \in DOMAIN followups : Selected(f) =>
              /\ followups[f].patient_id = SenderOf(sid)
              /\ followups[f].status \in
                    {"waiting_for_patient", "waiting_for_doctor", "appointment_scheduling"}
              /\ \A g \in DOMAIN followups :
                    (/\ followups[g].patient_id = followups[f].patient_id
                     /\ followups[g].status \in
                          {"waiting_for_patient", "waiting_for_doctor",
                           "appointment_scheduling"})
                    => followups[g].created_at <= followups[f].created_at]_vars

\* A message went to the newer of two awaiting followups of one patient.
C6_Witness ==
    \E f, g \in DOMAIN followups :
        /\ followups[f].patient_id = followups[g].patient_id
        /\ followups[g].created_at < followups[f].created_at
        /\ followups[g].status \in AwaitingStatuses
        /\ followups[g].history = << >>
        /\ \E s \in Slots : drafts[s].pc = "drafting" /\ drafts[s].followup_id = f

\* C7: a message from an unknown number, or from a patient without a
\* followup in an awaiting status, is answered with success, writes no
\* followup and starts neither drafting nor booking.
C7_UnresolvedIsNoOp ==
    [][\A sid \in MessageSids :
          (/\ whatsapp_webhook(sid)
           /\ \/ SenderOf(sid) = None
              \/ ~ \E f \in DOMAIN followups :
                     /\ followups[f].patient_id = SenderOf(sid)
                     /\ followups[f].status \in
                           {"waiting_for_patient", "waiting_for_doctor",
                            "appointment_scheduling"})
          => /\ resp'.op = "webhook"
             /\ resp'.status = "success"
             /\ followups' = followups
             /\ drafts' = drafts
             /\ bookings' = bookings]_vars

\* A patient whose only followups are closed wrote, and nothing was started.
C7_Witness ==
    /\ resp = Response("webhook", "success", "No active followup.")
    /\ \E f \in DOMAIN followups : followups[f].status = "closed"
    /\ \A f \in DOMAIN followups : followups[f].history = << >>

\* The sender's message can only be resolved to a followup in appointment_scheduling.
ResolvesToScheduling(sid) ==
    /\ Newest(SenderOf(sid)) # {}
    /\ \A f \in Newest(SenderOf(sid)) : followups[f].status = "appointment_scheduling"

HandedToBooking(sid) ==
    \E s \in Slots :
        /\ bookings[s].pc = "idle"
        /\ bookings'[s].pc = "queued"
        /\ bookings'[s].followup_id \in Newest(SenderOf(sid))
        /\ bookings'[s].message_content = PayloadBody(sid)
        /\ \A r \in Slots \ {s} : bookings'[r] = bookings[r]

\* C8 as stated: a message resolved to a followup in appointment_scheduling
\* is handed to book_appointment, and the webhook neither appends to a
\* history, nor changes a status, nor starts drafting.
C8_Original ==
    [][\A sid \in MessageSids :
          (whatsapp_webhook(sid) /\ ResolvesToScheduling(sid))
          => /\ HandedToBooking(sid)
             /\ followups' = followups
             /\ drafts' = drafts]_vars

\* C8 as amended: the message is handed to book_appointment when the
\* appointment agent is available and answered with an error when it is not;
\* either way the webhook writes no followup and starts no drafting.
C8_SchedulingBypassesDrafting ==
    [][\A sid \in MessageSids :
          (whatsapp_webhook(sid) /\ ResolvesToScheduling(sid))
          => /\ IF initialized
                THEN HandedToBooking(sid) /\ resp'.status = "success"
                ELSE bookings' = bookings /\ resp'.status = "error"
             /\ followups' = followups
             /\ drafts' = drafts]_vars

\* A booking task holds the reply of a patient whose followup is still in
\* appointment_scheduling with an empty history.
C8_Witness ==
    \E s \in Slots :
        /\ bookings[s].pc = "queued"
        /\ bookings[s].followup_id \in DOMAIN followups
        /\ followups[bookings[s].followup_id].status = "appointment_scheduling"
        /\ followups[bookings[s].followup_id].history = << >>

\* C9: while the drafting step of a webhook call runs, the call's response
\* has been returned.
C9_ResponseBeforeDrafting ==
    \A s \in Slots : drafts[s].pc = "drafting" => drafts[s].responded

\* C10: the step that completes a doctor decision sets final_message_sent
\* only when the send succeeded, and then appends the sent message to the
\* history and advances the status in the same write; after a failed send
\* the flag, the history and the status are as before.
C10_SentFlagWithHistory ==
    [][\A s \in Slots, o \in {"sent", "send_failed"} :
          (doctor_decision_finish(s, o) /\ decisions[s].followup_id \in DOMAIN followups)
          => LET f == decisions[s].followup_id IN
             IF o = "sent"
             THEN /\ followups'[f].final_message_sent
                  /\ Len(followups'[f].history) = Len(followups[f].history) + 1
                  /\ followups'[f].history[Len(followups'[f].history)].content
                        = decisions[s].message_content
                  /\ followups'[f].status # followups[f].status
             ELSE /\ followups'[f].final_message_sent = followups[f].final_message_sent
                  /\ followups'[f].history = followups[f].history
                  /\ followups'[f].status = followups[f].status]_vars

----------------------------------------------------------------------------
(* The reminder scheduler                                                  *)

C12_UnknownCancelIsNoOp ==
    [][\A id \in KnownJobIds :
          (cancel_follow_up_reminder(id) /\ ~HasJob(jobs, id))
          => /\ sched_ret'.ok = FALSE
             /\ jobs' = jobs]_vars

\* On an initialized scheduler holding a job, a cancel call for the id of a
\* job that was run or cancelled before has returned False.
C12_Witness ==
    /\ sched_initialized
    /\ jobs # {}
    /\ sched_ret.op = "cancel"
    /\ ~sched_ret.ok
    /\ ~HasJob(jobs, sched_ret.job_id)
    /\ sched_ret.job_id \in fired \cup {c.id : c \in cancelled}

\* C13: a job id for which a cancel call returned True before the job's run
\* time is never run afterwards: no reminder is sent under that id.
C13_CancelledNeverRuns ==
    [][\A j \in jobs :
          Fire(j) => ~\E c \in cancelled : /\ c.id = j.id
                                           /\ c.by = "cancel"
                                           /\ c.at < c.run_date]_vars

\* C14: when a reschedule call cancels the old job and returns a new job id,
\* the old job id is no longer in the store and the returned job is the only
\* stored reminder job of that record.
C14_RescheduleLeavesOneJob ==
    [][\A r \in RecordIds, id \in StoredJobIds, t \in ScheduleTimes :
          (/\ reschedule_follow_up_reminder(r, id, t, "p1", TRUE)
           /\ CancelOk(jobs, id)
           /\ sched_ret'.job_id # NoJobId)
          => /\ ~HasJob(jobs', id)
             /\ \A j \in jobs' : j.remainder_id = r => j.id = sched_ret'.job_id]_vars

\* C15: the id a successful schedule call returns differs from every id
\* returned before, so the call replaces no job an earlier call stored.
C15_FreshJobId ==
    [][\A r \in RecordIds, t \in ScheduleTimes :
          (schedule_follow_up_reminder(r, "p1", t, TRUE) /\ sched_initialized)
          => /\ sched_ret'.job_id \notin KnownJobIds
             /\ \A j \in jobs : j \in jobs']_vars

\* C16: after a schedule call returns job id J for a stored record, the
\* record's scheduled_job_id is J.
C16_JobIdWrittenBack ==
    [][\A r \in RecordIds, t \in ScheduleTimes :
          (/\ schedule_follow_up_reminder(r, "p1", t, TRUE)
           /\ sched_ret'.job_id # NoJobId
           /\ Exists(r.n))
          => ScheduledJobOf(followups'[r.n]) = sched_ret'.job_id]_vars

\* C17: when a job runs for a stored record, the record's status becomes
\* completed if the agent reported success, and failed with the error text
\* otherwise.
C17_RunSetsFinalStatus ==
    [][\A j \in jobs :
          (Fire(j) /\ Exists(j.remainder_id.n))
          => IF FireError = None
             THEN followups'[j.remainder_id.n].status = "completed"
             ELSE /\ followups'[j.remainder_id.n].status = "failed"
                  /\ "error_message" \in DOMAIN followups'[j.remainder_id.n]]_vars

\* C18: every run of a job for a stored record raises the record's attempts
\* by exactly 1 and sets its last_attempt to the time of the run.
C18_RunCountsAttempt ==
    [][\A j \in jobs :
          (Fire(j) /\ Exists(j.remainder_id.n))
          => /\ "attempts" \in DOMAIN followups'[j.remainder_id.n]
             /\ "last_attempt" \in DOMAIN followups'[j.remainder_id.n]
             /\ followups'[j.remainder_id.n].last_attempt = now
             /\ followups'[j.remainder_id.n].attempts =
                   (IF "attempts" \in DOMAIN followups[j.remainder_id.n]
                    THEN followups[j.remainder_id.n].attempts ELSE 0) + 1]_vars

----------------------------------------------------------------------------
(* The records                                                             *)

C20_MissingFollowupIs404 ==
    [][\A f \in FollowupIds :
          /\ \A d \in Doctors :
                ((get_followup(f, d) \/ delete_followup(f, d) \/ send_followup_now(f, d))
                 /\ ~FindOwned(f, d))
                => /\ resp'.status = "404"
                   /\ followups' = followups
                   /\ jobs' = jobs
          /\ \A st \in RecordStatuses :
                (update_followup(f, st, None) /\ ~Exists(f))
                => /\ resp'.status = "404"
                   /\ followups' = followups
                   /\ jobs' = jobs]_vars

----------------------------------------------------------------------------
(* Rejections and failures                                                 *)

\* C21: an operation that accepts a follow-up date rejects a date that is not
\* in the future before it inserts or updates any record and before it
\* schedules any job.  For POST /patients: a follow-up time not after the
\* current time is answered with 400 and leaves the followups, the reminders
\* and the job store as they were.
C21_PastDateRejectedFirst ==
    [][\A t \in ScheduleTimes :
          (create_patient("p1", t) /\ t <= now)
          => /\ resp'.status = "400"
             /\ followups' = followups
             /\ remainders' = remainders
             /\ jobs' = jobs]_vars

\* C22: when agent initialization fails, initialize returns False and the
\* registry stays uninitialized; from then on process_patient_message,
\* doctor_decision, send_follow_up_reminder and approve_and_send_response
\* return the failure "Agent registry not initialized" without starting an
\* agent run, sending anything or changing a followup, and get_agent_status
\* reports the registry as not initialized.
C22_UninitializedRegistryFails ==
    [][~initialized
       => /\ initialize(FALSE) => (~initialized' /\ resp'.status = "error")
          /\ get_agent_status => resp'.status = "not_initialized"
          /\ (\/ \E o \in DraftOutcomes : process_patient_message("p1", "b1", o)
              \/ \E f \in FollowupIds : doctor_decision_call(f, "custom", "custom1")
              \/ registry_send_follow_up_reminder("p1")
              \/ \E f \in FollowupIds : approve_and_send_response(f, "custom1"))
             => /\ resp'.status = "failure"
                /\ resp'.message = "Agent registry not initialized"
                /\ followups' = followups
                /\ gateway' = gateway
                /\ drafts' = drafts
                /\ decisions' = decisions
                /\ bookings' = bookings]_vars

\* With the registry not initialized and a followup stored, a message was
\* handed to process_patient_message and came back as a failure.
C22_Witness ==
    /\ ~initialized
    /\ DOMAIN followups # {}
    /\ resp = Response("process_patient_message", "failure",
                       "Agent registry not initialized")

----------------------------------------------------------------------------
(* Histories and outbound sends                                            *)

\* C23: in every reachable state each followup's history is ordered by
\* non-decreasing timestamp, whichever way webhook ingests, tool sends run in
\* worker threads and appointment-request sends interleave.
C23_HistoryTimestampsOrdered ==
    \A f \in DOMAIN followups :
       \A i, j \in 1..Len(followups[f].history) :
          i < j => followups[f].history[i].timestamp <= followups[f].history[j].timestamp

\* C24: a send_whatsapp_message call bound to a stored followup appends
\* exactly one sender=agent entry and sets status waiting_for_patient when
\* the send succeeds; when the send fails it appends nothing and leaves the
\* followup in status failed with the error recorded on it.
C24_SendOutcomeRecorded ==
    [][\A m \in ToolMessages, f \in FollowupIds, ok \in BOOLEAN :
          (send_whatsapp_message(PatientPhone("p1"), m, f, ok) /\ Exists(f))
          => IF ok
             THEN /\ followups'[f].history =
                        Append(followups[f].history, Message("agent", m, now))
                  /\ followups'[f].status = "waiting_for_patient"
             ELSE /\ followups'[f].history = followups[f].history
                  /\ followups'[f].status = "failed"
                  /\ followups'[f].note # followups[f].note]_vars

\* C25: when the booking task runs for a stored followup that is in
\* appointment_scheduling: if the agent run created a calendar event, the
\* followup gets appointment_details (title, start, end, event id) and status
\* completed in one update; if the run produced no create-event output or
\* raised, the followup is left as it was (its status stays
\* appointment_scheduling and no appointment_details are written).
C25_BookingOutcome ==
    [][\A s \in Slots, o \in BookingOutcomes, ok \in BOOLEAN :
          (/\ book_appointment(s, o, ok)
           /\ Exists(bookings[s].followup_id)
           /\ followups[bookings[s].followup_id].status = "appointment_scheduling")
          => IF o = "created"
             THEN /\ followups' = [followups EXCEPT ![bookings[s].followup_id] =
                        [status |-> "completed",
                         appointment_details |->
                            [event_title |-> "Appointment",
                             start_time |-> bookings[s].message_content,
                             end_time |-> bookings[s].message_content,
                             gcal_event_id |-> "event1"]] @@ @]
             ELSE followups' = followups]_vars

\* A booking has completed a followup and stored the details of its event.
C25_Witness ==
    \E f \in DOMAIN followups :
       /\ followups[f].status = "completed"
       /\ followups[f].appointment_details # NoAppointment
       /\ followups[f].appointment_details.gcal_event_id = "event1"

C27_DraftOfNewestMessage ==
    \A f \in DOMAIN followups :
       (/\ \A s \in Slots : ~(drafts[s].pc = "drafting" /\ drafts[s].followup_id = f)
        /\ Len(followups[f].history) > 0
        /\ followups[f].history[Len(followups[f].history)].sender = "patient"
        /\ followups[f].note = NoteProcessed
        /\ followups[f].ai_draft_message # "")
       => /\ followups[f].extracted_data =
                followups[f].history[Len(followups[f].history)].content
          /\ followups[f].ai_draft_message =
                DraftFor(followups[f].history[Len(followups[f].history)].content)

\* C28: when delete_followup has deleted a followup, the job store holds no
\* job bound to the id of that followup.
C28_DeleteLeavesNoJob ==
    [][\A f \in FollowupIds, d \in Doctors :
          (delete_followup(f, d) /\ FindOwned(f, d))
          => \A j \in jobs' : j.remainder_id # StrId("followups", f)]_vars

\* C29: when reschedule_followup has returned, every reminder of the patient
\* that is pending carries the id of a stored job set for the new date-time,
\* and every other one is failed with no job id.
C29_RescheduledRemindersHaveJobs ==
    [][\A p \in Patients, t \in ScheduleTimes :
          (reschedule_followup(p, t) /\ resp'.status = "200")
          => \A r \in DOMAIN remainders' :
                remainders'[r].patient_id = p
                => \/ /\ remainders'[r].status = "pending"
                      /\ \E j \in jobs' : /\ j.id = remainders'[r].scheduled_job_id
                                          /\ j.run_date = t
                   \/ /\ remainders'[r].status = "failed"
                      /\ remainders'[r].scheduled_job_id = NoJobId]_vars

\* C30: a doctor decision reaches the gateway only for a followup that is
\* waiting_for_doctor and whose final message has not been sent yet.
C30_DecisionSendsOnce ==
    [][\A s \in Slots :
          (doctor_decision_finish(s, "sent") /\ Exists(decisions[s].followup_id))
          => /\ followups[decisions[s].followup_id].status = "waiting_for_doctor"
             /\ ~followups[decisions[s].followup_id].final_message_sent]_vars

============================================================================
